---- MODULE Spec2Model ----
(***************************************************************************)
(* pbuild: cross-compiling build orchestrator.                             *)
(*                                                                         *)
(* The module models                                                       *)
(*   - gobuild: ParseStrategy, getBuildTags and the argument list and      *)
(*     environment that BuildWithConfig hands to "go build";               *)
(*   - main: getBuildMode, getBuildStrategy and run (setup, worker pool    *)
(*     over targetChan/resultChan, per-target post-processing, collection, *)
(*     report and metadata).                                               *)
(*                                                                         *)
(* Go strings are sequences of one-character strings, so that ToLower,     *)
(* concatenation and Join are computed rather than assumed.                *)
(***************************************************************************)
EXTENDS Integers, Sequences, FiniteSets, TLC

(***************************************************************************)
(* String literals of the source                                           *)
(***************************************************************************)
\* The string literals of the source and of the modelled inputs, as sequences
\* of characters
Chars ==
  ("1.1.19" :> <<"1", ".", "1", ".", "1", "9">>)
  @@ ("" :> <<>>)
  @@ (".git" :> <<".", "g", "i", "t">>)
  @@ ("vendor" :> <<"v", "e", "n", "d", "o", "r">>)
  @@ ("dist" :> <<"d", "i", "s", "t">>)
  @@ ("bin" :> <<"b", "i", "n">>)
  @@ ("out" :> <<"o", "u", "t">>)
  @@ ("pbuild" :> <<"p", "b", "u", "i", "l", "d">>)
  @@ (".so" :> <<".", "s", "o">>)
  @@ (".dylib" :> <<".", "d", "y", "l", "i", "b">>)
  @@ (".dll" :> <<".", "d", "l", "l">>)
  @@ ("2.0.0" :> <<"2", ".", "0", ".", "0">>)
  @@ ("3.1.0" :> <<"3", ".", "1", ".", "0">>)
  @@ ("," :> <<",">>)
  @@ ("-" :> <<"-">>)
  @@ ("-buildmode=" :> <<"-", "b", "u", "i", "l", "d", "m", "o", "d", "e", "=">>)
  @@ ("-dirty" :> <<"-", "d", "i", "r", "t", "y">>)
  @@ ("-ldflags" :> <<"-", "l", "d", "f", "l", "a", "g", "s">>)
  @@ ("-o" :> <<"-", "o">>)
  @@ ("-race" :> <<"-", "r", "a", "c", "e">>)
  @@ ("-s -w -X main.appVersion=" :> <<"-", "s", " ", "-", "w", " ", "-", "X", " ", "m", "a", "i", "n", ".", "a", "p", "p", "V", "e", "r", "s", "i", "o", "n", "=">>)
  @@ ("-tags" :> <<"-", "t", "a", "g", "s">>)
  @@ ("-trimpath" :> <<"-", "t", "r", "i", "m", "p", "a", "t", "h">>)
  @@ ("-w" :> <<"-", "w">>)
  @@ ("." :> <<".">>)
  @@ (".exe" :> <<".", "e", "x", "e">>)
  @@ (".gitignore" :> <<".", "g", "i", "t", "i", "g", "n", "o", "r", "e">>)
  @@ (".gz" :> <<".", "g", "z">>)
  @@ (".hash" :> <<".", "h", "a", "s", "h">>)
  @@ (".zst" :> <<".", "z", "s", "t">>)
  @@ ("/" :> <<"/">>)
  @@ ("/plain" :> <<"/", "p", "l", "a", "i", "n">>)
  @@ ("/proj" :> <<"/", "p", "r", "o", "j">>)
  @@ ("386" :> <<"3", "8", "6">>)
  @@ ("6" :> <<"6">>)
  @@ ("7" :> <<"7">>)
  @@ ("a,b" :> <<"a", ",", "b">>)
  @@ ("abc1234" :> <<"a", "b", "c", "1", "2", "3", "4">>)
  @@ ("amd64" :> <<"a", "m", "d", "6", "4">>)
  @@ ("app" :> <<"a", "p", "p">>)
  @@ ("arm" :> <<"a", "r", "m">>)
  @@ ("arm64" :> <<"a", "r", "m", "6", "4">>)
  @@ ("auto" :> <<"a", "u", "t", "o">>)
  @@ ("build" :> <<"b", "u", "i", "l", "d">>)
  @@ ("build-metadata.json" :> <<"b", "u", "i", "l", "d", "-", "m", "e", "t", "a", "d", "a", "t", "a", ".", "j", "s", "o", "n">>)
  @@ ("builds" :> <<"b", "u", "i", "l", "d", "s">>)
  @@ ("builds/" :> <<"b", "u", "i", "l", "d", "s", "/">>)
  @@ ("CGO_ENABLED=" :> <<"C", "G", "O", "_", "E", "N", "A", "B", "L", "E", "D", "=">>)
  @@ ("CGO_ENABLED=0" :> <<"C", "G", "O", "_", "E", "N", "A", "B", "L", "E", "D", "=", "0">>)
  @@ ("darwin" :> <<"d", "a", "r", "w", "i", "n">>)
  @@ ("exe" :> <<"e", "x", "e">>)
  @@ ("flexible" :> <<"f", "l", "e", "x", "i", "b", "l", "e">>)
  @@ ("freebsd" :> <<"f", "r", "e", "e", "b", "s", "d">>)
  @@ ("GO111MODULE=off" :> <<"G", "O", "1", "1", "1", "M", "O", "D", "U", "L", "E", "=", "o", "f", "f">>)
  @@ ("GOAMD64=" :> <<"G", "O", "A", "M", "D", "6", "4", "=">>)
  @@ ("GOARCH=" :> <<"G", "O", "A", "R", "C", "H", "=">>)
  @@ ("GOARM64=" :> <<"G", "O", "A", "R", "M", "6", "4", "=">>)
  @@ ("GOARM=" :> <<"G", "O", "A", "R", "M", "=">>)
  @@ ("GOMIPS=" :> <<"G", "O", "M", "I", "P", "S", "=">>)
  @@ ("GOOS=" :> <<"G", "O", "O", "S", "=">>)
  @@ ("GOPPC64=" :> <<"G", "O", "P", "P", "C", "6", "4", "=">>)
  @@ ("GORISCV64=" :> <<"G", "O", "R", "I", "S", "C", "V", "6", "4", "=">>)
  @@ ("gzip" :> <<"g", "z", "i", "p">>)
  @@ ("hardfloat" :> <<"h", "a", "r", "d", "f", "l", "o", "a", "t">>)
  @@ ("HOME=/root" :> <<"H", "O", "M", "E", "=", "/", "r", "o", "o", "t">>)
  @@ ("linux" :> <<"l", "i", "n", "u", "x">>)
  @@ ("mips" :> <<"m", "i", "p", "s">>)
  @@ ("mipsle" :> <<"m", "i", "p", "s", "l", "e">>)
  @@ ("n/a" :> <<"n", "/", "a">>)
  @@ ("netbsd" :> <<"n", "e", "t", "b", "s", "d">>)
  @@ ("netgo,osusergo" :> <<"n", "e", "t", "g", "o", ",", "o", "s", "u", "s", "e", "r", "g", "o">>)
  @@ ("node_modules" :> <<"n", "o", "d", "e", "_", "m", "o", "d", "u", "l", "e", "s">>)
  @@ ("openbsd" :> <<"o", "p", "e", "n", "b", "s", "d">>)
  @@ ("pie" :> <<"p", "i", "e">>)
  @@ ("power8" :> <<"p", "o", "w", "e", "r", "8">>)
  @@ ("power9" :> <<"p", "o", "w", "e", "r", "9">>)
  @@ ("ppc64" :> <<"p", "p", "c", "6", "4">>)
  @@ ("ppc64le" :> <<"p", "p", "c", "6", "4", "l", "e">>)
  @@ ("PureGo" :> <<"P", "u", "r", "e", "G", "o">>)
  @@ ("purego" :> <<"p", "u", "r", "e", "g", "o">>)
  @@ ("purego,netgo,osusergo" :> <<"p", "u", "r", "e", "g", "o", ",", "n", "e", "t", "g", "o", ",", "o", "s", "u", "s", "e", "r", "g", "o">>)
  @@ ("riscv64" :> <<"r", "i", "s", "c", "v", "6", "4">>)
  @@ ("rva20u64" :> <<"r", "v", "a", "2", "0", "u", "6", "4">>)
  @@ ("rva22u64" :> <<"r", "v", "a", "2", "2", "u", "6", "4">>)
  @@ ("softfloat" :> <<"s", "o", "f", "t", "f", "l", "o", "a", "t">>)
  @@ ("static" :> <<"s", "t", "a", "t", "i", "c">>)
  @@ ("traditional" :> <<"t", "r", "a", "d", "i", "t", "i", "o", "n", "a", "l">>)
  @@ ("unknown" :> <<"u", "n", "k", "n", "o", "w", "n">>)
  @@ ("v2" :> <<"v", "2">>)
  @@ ("v3" :> <<"v", "3">>)
  @@ ("v8.0" :> <<"v", "8", ".", "0">>)
  @@ ("v9.0" :> <<"v", "9", ".", "0">>)
  @@ ("wasm" :> <<"w", "a", "s", "m">>)
  @@ ("windows" :> <<"w", "i", "n", "d", "o", "w", "s">>)
  @@ ("xz" :> <<"x", "z">>)
  @@ ("zstd" :> <<"z", "s", "t", "d">>)

\* the Go string written x
S(x) ==
  Chars[x]

appVersion ==
  S("1.1.19")

\* the status glyphs of run
greenTick ==
  <<"green tick">>

redX ==
  <<"red x">>

(***************************************************************************)
(* String helpers (package strings, path/filepath)                         *)
(***************************************************************************)
UpperChars ==
  <<"A", "B", "C", "D", "E", "F", "G", "H", "I", "J", "K", "L", "M",
    "N", "O", "P", "Q", "R", "S", "T", "U", "V", "W", "X", "Y", "Z">>

LowerChars ==
  <<"a", "b", "c", "d", "e", "f", "g", "h", "i", "j", "k", "l", "m",
    "n", "o", "p", "q", "r", "s", "t", "u", "v", "w", "x", "y", "z">>

ToLowerChar(c) ==
  IF \E i \in 1..26 : UpperChars[i] = c
  THEN LowerChars[CHOOSE i \in 1..26 : UpperChars[i] = c]
  ELSE c

\* strings.ToLower
ToLower(s) ==
  [i \in 1..Len(s) |-> ToLowerChar(s[i])]

\* strings.Join(elems, sep)
RECURSIVE Join(_, _)
Join(elems, sep) ==
  IF Len(elems) = 0 THEN S("")
  ELSE IF Len(elems) = 1 THEN elems[1]
  ELSE elems[1] \o sep \o Join(Tail(elems), sep)

\* strings.HasPrefix(s, prefix)
HasPrefix(s, prefix) ==
  /\ Len(s) >= Len(prefix)
  /\ SubSeq(s, 1, Len(prefix)) = prefix

\* strings.HasSuffix(s, suffix)
HasSuffix(s, suffix) ==
  /\ Len(s) >= Len(suffix)
  /\ SubSeq(s, Len(s) - Len(suffix) + 1, Len(s)) = suffix

\* filepath.Join(dir, name) for a clean dir and a plain name
PathJoin(dir, name) ==
  dir \o S("/") \o name

\* index of the first occurrence of x in the sequence seq, 0 when absent
IndexOf(seq, x) ==
  IF \E i \in 1..Len(seq) : seq[i] = x
  THEN CHOOSE i \in 1..Len(seq) : seq[i] = x /\ \A j \in 1..(i - 1) : seq[j] # x
  ELSE 0

Contains(seq, x) ==
  \E i \in 1..Len(seq) : seq[i] = x

(***************************************************************************)
(* State                                                                   *)
(***************************************************************************)
VARIABLES
  \* the command line (the flag variables of package main)
  flagAll, flagVersion, flagStrategy, flagBuildMode, flagTags, flagLDFlags,
  flagCompress, flagChecksums, flagParallel, flagStopOnError,
  \* the world the process runs in
  environ,      \* os.Environ(): the inherited process environment
  goModDirs,    \* the directories in which os.Stat(<dir>/go.mod) succeeds
  targetDir,    \* the TARGET_DIR argument
  host,         \* runtime.GOOS / runtime.GOARCH
  srcVersion,   \* what appver.ExtractAppVersion finds ("" when nothing)
  headRev,      \* what gitmeta.ResolveHEAD finds ("" when nothing)
  treeDirty,    \* whether a source file of the project was modified more
                \* than a second after .git/HEAD
  prevTags,     \* the version tags of the earlier runs in this directory
  files,        \* the file system: path -> content
  modified,     \* the files whose ModTime is more than a second after
                \* that of .git/HEAD
  \* run: the orchestrator goroutine
  mainpc, result, workDir, projectName, versionTag, versionDir,
  matrix, numWorkers, rows, successCount, failCount, table, metadata,
  \* run: channels, wait group and helper goroutines
  targetChan, targetClosed, resultChan, resultClosed, wg, senderpc, sent,
  closerpc,
  \* run: the workers
  wpc, wt, wconfig, woutPath, wrow,
  \* history of the run, kept for the properties
  pulled,       \* target -> the receives of it from targetChan
  invoked,      \* target -> the calls of BuildWithConfig for it
  postlog,      \* target -> what post-processing did for it
  failures,     \* the steps of the orchestrator that failed
  \* resolver harness
  planTarget,   \* the target being resolved
  planBase,     \* the BuildConfig apart from its Strategy
  resolved,     \* the calls of BuildWithConfig made so far
  \* naming harness
  named         \* the calls of targets.OutputName made so far

flagVars ==
  <<flagAll, flagVersion, flagStrategy, flagBuildMode, flagTags, flagLDFlags,
    flagCompress, flagChecksums, flagParallel, flagStopOnError>>

worldVars ==
  <<environ, goModDirs, targetDir, host, srcVersion, headRev, treeDirty,
    prevTags>>

setupVars ==
  <<workDir, projectName, versionTag, versionDir>>

collectVars ==
  <<rows, successCount, failCount, table, metadata>>

chanVars ==
  <<targetChan, targetClosed, resultChan, resultClosed, wg, senderpc, sent, closerpc>>

workerVars ==
  <<wpc, wt, wconfig, woutPath, wrow>>

historyVars ==
  <<pulled, invoked, postlog, failures>>

planVars ==
  <<planTarget, planBase, resolved, named>>

runVars ==
  <<files, modified, mainpc, result, setupVars, matrix, numWorkers, collectVars,
    chanVars, workerVars, historyVars>>

vars ==
  <<flagVars, worldVars, runVars, planVars>>

\* flags that every modelled command line leaves at their defaults
flagName ==
  S("app")

flagOutDir ==
  S("builds")

flagAMD64Level ==
  S("v2")

flagARM64Level ==
  S("v8.0")

flagARMLevel ==
  S("7")

flagMIPSLevel ==
  S("hardfloat")

flagPPC64Level ==
  S("power8")

flagRISCVLevel ==
  S("rva20u64")

flagBuildFlags ==
  S("")

flagVerbose ==
  FALSE

flagSkipCleanup ==
  FALSE

flagCleanCache ==
  FALSE

(***************************************************************************)
(* package gobuild                                                         *)
(***************************************************************************)
FlexibleCGO == 0

NoCGOEver == 1

TraditionalCGO == 2

ParseStrategyDefaultFlexible(s) ==
  LET l == ToLower(s) IN
  CASE l = S("flexible") -> FlexibleCGO
    [] l = S("purego") -> NoCGOEver
    [] l = S("traditional") -> TraditionalCGO
    [] OTHER -> FlexibleCGO

ParseStrategy(s) ==
  LET l == ToLower(s) IN
  CASE l = S("flexible") -> FlexibleCGO
    [] l = S("purego") -> NoCGOEver
    [] l = S("traditional") -> TraditionalCGO
    [] OTHER -> NoCGOEver

getBuildTags(strategy) ==
  CASE strategy = FlexibleCGO -> S("netgo,osusergo")
    [] strategy = NoCGOEver -> S("purego,netgo,osusergo")
    [] strategy = TraditionalCGO -> S("")
    [] OTHER -> S("netgo,osusergo")

\* the allTags slice of BuildWithConfig
AllTagsUserFirst(config) ==
  (IF config.Tags # S("") THEN <<config.Tags>> ELSE <<>>)
  \o (IF getBuildTags(config.Strategy) # S("")
      THEN <<getBuildTags(config.Strategy)>> ELSE <<>>)

AllTags(config) ==
  (IF getBuildTags(config.Strategy) # S("")
   THEN <<getBuildTags(config.Strategy)>> ELSE <<>>)
  \o (IF config.Tags # S("") THEN <<config.Tags>> ELSE <<>>)

\* the buildArgs slice of BuildWithConfig: the arguments of "go"
BuildArgs(config, outputPath) ==
  <<S("build")>>
  \o (IF config.BuildFlags # S("") THEN <<config.BuildFlags>> ELSE <<S("-trimpath")>>)
  \o <<S("-buildmode=") \o config.BuildMode>>
  \o (IF Len(AllTags(config)) > 0
      THEN <<S("-tags"), Join(AllTags(config), S(","))>> ELSE <<>>)
  \o <<S("-ldflags"), config.LDFlags, S("-o"), outputPath, S(".")>>

\* the CGO entry BuildWithConfig appends to the environment
CgoEnvPuregoOnly(config) ==
  IF config.Strategy = NoCGOEver THEN <<S("CGO_ENABLED=0")>> ELSE <<>>

CgoEnv(config) ==
  IF config.Strategy # FlexibleCGO THEN <<S("CGO_ENABLED=0")>> ELSE <<>>

\* the CPU feature entry BuildWithConfig appends to the environment
CpuEnvArmSwapped(t, config) ==
  CASE t.Arch = S("amd64") -> <<S("GOAMD64=") \o config.AMD64Level>>
    [] t.Arch = S("arm64") -> <<S("GOARM64=") \o config.ARMLevel>>
    [] t.Arch = S("arm") -> <<S("GOARM=") \o config.ARM64Level>>
    [] t.Arch \in {S("mips"), S("mipsle")} -> <<S("GOMIPS=") \o config.MIPSLevel>>
    [] t.Arch \in {S("ppc64"), S("ppc64le")} -> <<S("GOPPC64=") \o config.PPC64Level>>
    [] t.Arch = S("riscv64") -> <<S("GORISCV64=") \o config.RISCVLevel>>
    [] OTHER -> <<>>

CpuEnv(t, config) ==
  CASE t.Arch = S("amd64") -> <<S("GOAMD64=") \o config.AMD64Level>>
    [] t.Arch = S("arm64") -> <<S("GOARM64=") \o config.ARM64Level>>
    [] t.Arch = S("arm") -> <<S("GOARM=") \o config.ARMLevel>>
    [] t.Arch \in {S("mips"), S("mipsle")} -> <<S("GOMIPS=") \o config.MIPSLevel>>
    [] t.Arch \in {S("ppc64"), S("ppc64le")} -> <<S("GOPPC64=") \o config.PPC64Level>>
    [] t.Arch = S("riscv64") -> <<S("GORISCV64=") \o config.RISCVLevel>>
    [] OTHER -> <<>>

\* the entries BuildWithConfig appends to os.Environ()
EnvOverrides(dir, t, config) ==
  <<S("GOOS=") \o t.OS, S("GOARCH=") \o t.Arch>>
  \o CgoEnv(config)
  \o CpuEnv(t, config)
  \o (IF dir \notin goModDirs THEN <<S("GO111MODULE=off")>> ELSE <<>>)

\* cmd.Env of BuildWithConfig
BuildEnvAccumulated(dir, t, config) ==
  (IF Len(resolved) = 0 THEN environ ELSE resolved[Len(resolved)].env)
  \o EnvOverrides(dir, t, config)

BuildEnv(dir, t, config) ==
  environ \o EnvOverrides(dir, t, config)

(***************************************************************************)
(* package targets                                                         *)
(***************************************************************************)
Target(os, arch) ==
  [OS |-> os, Arch |-> arch]

\* targets.Default()
Default ==
  <<Target(S("linux"), S("amd64")), Target(S("linux"), S("arm64")), Target(S("linux"), S("riscv64")),
    Target(S("windows"), S("amd64")), Target(S("windows"), S("arm64")),
    Target(S("darwin"), S("amd64")), Target(S("darwin"), S("arm64")),
    Target(S("freebsd"), S("amd64")), Target(S("freebsd"), S("arm64")), Target(S("freebsd"), S("riscv64")),
    Target(S("openbsd"), S("amd64")), Target(S("openbsd"), S("arm64")), Target(S("openbsd"), S("riscv64")),
    Target(S("netbsd"), S("amd64")), Target(S("netbsd"), S("arm64"))>>

\* targets.OutputName(project, t)
OutputNameWithoutOS(project, t) ==
  LET ext == IF t.OS = S("windows") THEN S(".exe") ELSE S("") IN
  IF \/ (t.OS = S("windows") /\ t.Arch = S("amd64"))
     \/ (t.OS = S("linux") /\ t.Arch = S("amd64"))
  THEN project \o ext
  ELSE project \o S("-") \o t.Arch \o ext

OutputName(project, t) ==
  LET ext == IF t.OS = S("windows") THEN S(".exe") ELSE S("") IN
  IF \/ (t.OS = S("windows") /\ t.Arch = S("amd64"))
     \/ (t.OS = S("linux") /\ t.Arch = S("amd64"))
  THEN project \o ext
  ELSE project \o S("-") \o t.Arch \o S("-") \o t.OS \o ext

(***************************************************************************)
(* package main: pure helpers                                              *)
(***************************************************************************)
\* getBuildMode(requestedMode)
getBuildModePassingAuto(requestedMode) ==
  requestedMode

getBuildMode(requestedMode) ==
  IF requestedMode # S("auto") THEN requestedMode ELSE S("exe")

\* getBuildStrategy(requestedStrategy, buildMode)
getBuildStrategy(requestedStrategy, buildMode) ==
  IF buildMode = S("pie") /\ requestedStrategy = S("purego")
  THEN FlexibleCGO
  ELSE ParseStrategy(requestedStrategy)

\* the extension chosen by the switch on flagCompress (run, lines 644-650)
CompressExt(method) ==
  CASE method = S("gzip") -> S(".gz")
    [] method = S("zstd") -> S(".zst")
    [] OTHER -> S("")

\* File contents.  The toolchain, the compressors and the hash functions are
\* external; their outputs are symbolic: the binary built for a target, the
\* compressed stream of a content, the digest of a content.
Binary(t) ==
  <<"bin">> \o t.OS \o S("/") \o t.Arch

Compressed(method, content) ==
  <<"compressed">> \o method \o <<"(">> \o content \o <<")">>

\* what a failed io.Copy leaves in the output file: an incomplete stream
PartialStream(method) ==
  <<"compressed">> \o method \o <<"(">>

SHA256(content) ==
  <<"sha256(">> \o content \o <<")">>

SHA512(content) ==
  <<"sha512(">> \o content \o <<")">>

\* the content writeChecksumFile writes for filePath
ChecksumFileContent(baseName, sha256Sum, sha512Sum) ==
  <<"SHA256 (">> \o baseName \o <<") = ">> \o sha256Sum \o <<"\n">>
  \o <<"SHA512 (">> \o baseName \o <<") = ">> \o sha512Sum \o <<"\n">>

\* fmt.Sprintf("%s (%d)", fsutil.HumanSizeBytes(sz), sz) for a size sz
SizeString(sz) ==
  <<ToString(sz), " B (", ToString(sz), ")">>

(***************************************************************************)
(* Resolver harness: BuildWithConfig applied to inputs drawn from bounded  *)
(* sets.  Each call records the strategy string it was configured from,    *)
(* its parameters, and the argument list and environment it gave to the    *)
(* toolchain.                                                              *)
(***************************************************************************)
MaxResolves == 2

StrategyStrings ==
  {S("flexible"), S("purego"), S("traditional"), S("PureGo"), S("static"), S("")}

WorkDirs ==
  {S("/proj"), S("/plain")}

Environs ==
  {<<S("HOME=/root")>>, <<S("HOME=/root"), S("CGO_ENABLED=0")>>}

Arches ==
  {S("amd64"), S("arm64"), S("arm"), S("mips"), S("mipsle"), S("ppc64"), S("ppc64le"),
   S("riscv64"), S("386"), S("wasm")}

PlanTargets ==
  {[OS |-> S("linux"), Arch |-> a] : a \in Arches}
  \cup {[OS |-> S("windows"), Arch |-> S("amd64")]}

\* the flag defaults of main, and a second choice of every level
LevelChoices ==
  {[AMD64Level |-> S("v2"), ARM64Level |-> S("v8.0"), ARMLevel |-> S("7"),
    MIPSLevel |-> S("hardfloat"), PPC64Level |-> S("power8"),
    RISCVLevel |-> S("rva20u64"), BuildFlags |-> S("")],
   [AMD64Level |-> S("v3"), ARM64Level |-> S("v9.0"), ARMLevel |-> S("6"),
    MIPSLevel |-> S("softfloat"), PPC64Level |-> S("power9"),
    RISCVLevel |-> S("rva22u64"), BuildFlags |-> S("-race")]}

PlanBases ==
  {[Strategy |-> NoCGOEver,
    AMD64Level |-> l.AMD64Level, ARM64Level |-> l.ARM64Level,
    ARMLevel |-> l.ARMLevel, MIPSLevel |-> l.MIPSLevel,
    PPC64Level |-> l.PPC64Level, RISCVLevel |-> l.RISCVLevel,
    BuildMode |-> S("exe"), Tags |-> tg, LDFlags |-> S("-w"),
    BuildFlags |-> l.BuildFlags, Verbose |-> FALSE, CleanCache |-> FALSE]
   : l \in LevelChoices, tg \in {S(""), S("a,b")}}

\* one call BuildWithConfig(ctx, dir, planTarget, "app", config) with
\* config.Strategy = ParseStrategy(s)
Resolve(s, dir) ==
  /\ Len(resolved) < MaxResolves
  /\ LET config == [planBase EXCEPT !.Strategy = ParseStrategy(s)] IN
     resolved' = Append(resolved,
       [str |-> s, workDir |-> dir, t |-> planTarget, config |-> config,
        out |-> S("app"),
        args |-> BuildArgs(config, S("app")),
        env |-> BuildEnv(dir, planTarget, config)])
  /\ UNCHANGED <<flagVars, worldVars, runVars, planTarget, planBase, named>>


(***************************************************************************)
(* Naming harness: targets.OutputName is called for targets of the default *)
(* matrix under one project name.                                          *)
(***************************************************************************)
MaxNames == 2

ProjectNames ==
  {S("app"), S("pbuild"), S("arm64")}

\* name := targets.OutputName(project, t)
NameTarget(project, t) ==
  /\ Len(named) < MaxNames
  /\ \A i \in 1..Len(named) : named[i].project = project
  /\ named' = Append(named,
       [project |-> project, t |-> t, name |-> OutputName(project, t)])
  /\ UNCHANGED <<flagVars, worldVars, runVars, planTarget, planBase, resolved>>
(***************************************************************************)
(* package main: checkAndUpdateGitignore                                   *)
(***************************************************************************)
\* strings.Split(s, "\n")
RECURSIVE SplitLines(_)
SplitLines(s) ==
  LET k == IndexOf(s, "\n") IN
  IF k = 0 THEN <<s>>
  ELSE <<SubSeq(s, 1, k - 1)>> \o SplitLines(SubSeq(s, k + 1, Len(s)))

IsSpace(c) ==
  c \in {" ", "\t", "\r", "\n"}

\* strings.TrimSpace
RECURSIVE TrimSpace(_)
TrimSpace(s) ==
  IF Len(s) = 0 THEN s
  ELSE IF IsSpace(s[1]) THEN TrimSpace(Tail(s))
  ELSE IF IsSpace(s[Len(s)]) THEN TrimSpace(SubSeq(s, 1, Len(s) - 1))
  ELSE s

\* the buildsEntryFound loop
BuildsEntryFoundUntrimmed(content) ==
  \E i \in 1..Len(SplitLines(content)) :
    SplitLines(content)[i] = S("builds/")

BuildsEntryFound(content) ==
  \E i \in 1..Len(SplitLines(content)) :
    TrimSpace(SplitLines(content)[i]) = S("builds/")

\* newContent of checkAndUpdateGitignore
GitignoreNewContent(content) ==
  (IF ~HasSuffix(content, <<"\n">>) /\ Len(content) > 0
   THEN content \o <<"\n">> ELSE content)
  \o S("builds/") \o <<"\n">>

(***************************************************************************)
(* package main: run                                                       *)
(***************************************************************************)
MaxTargets == 2

MaxParallel == 2

Workers ==
  1..MaxParallel

\* zero values of the Go types
NoTarget ==
  Target(S(""), S(""))

ZeroConfig ==
  [Strategy |-> FlexibleCGO,
   AMD64Level |-> S(""), ARM64Level |-> S(""), ARMLevel |-> S(""),
   MIPSLevel |-> S(""), PPC64Level |-> S(""), RISCVLevel |-> S(""),
   BuildMode |-> S(""), Tags |-> S(""), LDFlags |-> S(""),
   BuildFlags |-> S(""), Verbose |-> FALSE, CleanCache |-> FALSE]

ZeroRow ==
  [file |-> S(""), target |-> S(""), size |-> S(""),
   sha256 |-> S(""), status |-> S("")]

\* the matrix of --all: targets.Default(), cut to the first MaxTargets
DefaultMatrix ==
  SubSeq(Default, 1, MaxTargets)

AllTargets ==
  {Default[i] : i \in 1..Len(Default)}

Exists(path) ==
  path \in DOMAIN files

\* os.WriteFile / os.Create followed by writes: path now holds content
WriteFile(fs, path, content) ==
  [p \in (DOMAIN fs) \cup {path} |-> IF p = path THEN content ELSE fs[p]]

\* os.Remove(path)
RemoveFile(fs, path) ==
  [p \in (DOMAIN fs) \ {path} |-> fs[p]]

\* os.RemoveAll(dir): every file below dir goes
RemoveAll(fs, dir) ==
  [p \in {q \in DOMAIN fs : ~HasPrefix(q, dir \o S("/"))} |-> fs[p]]

\* the files with a late ModTime once the file system fs0 has become fs1:
\* those that are still there, and those that were created or rewritten
\* (every write of run changes the content of its file or creates it, and
\* run is started more than a second after .git/HEAD was last written)
Stamp(fs0, fs1) ==
  (modified \cap DOMAIN fs1)
  \cup {p \in DOMAIN fs1 : p \notin DOMAIN fs0 \/ fs1[p] # fs0[p]}

\* lines 475-502: filepath.Abs, the roots and the project name
MainInitGitignoreFirst ==
  /\ mainpc = "Init"
  /\ \/ /\ mainpc' = "GitignoreCheck"
        /\ workDir' = targetDir
        /\ projectName' = flagName
        /\ UNCHANGED <<result, failures>>
     \/ \* filepath.Abs fails
        /\ mainpc' = "Done"
        /\ result' = "error"
        /\ failures' = failures \cup {"abs"}
        /\ UNCHANGED <<workDir, projectName>>
  /\ UNCHANGED <<flagVars, worldVars, planVars, files, modified, versionTag, versionDir,
                 matrix, numWorkers, collectVars, chanVars, workerVars,
                 pulled, invoked, postlog>>

MainInit ==
  /\ mainpc = "Init"
  /\ \/ /\ mainpc' = "VersionResolve"
        /\ workDir' = targetDir
        /\ projectName' = flagName
        /\ UNCHANGED <<result, failures>>
     \/ \* filepath.Abs fails
        /\ mainpc' = "Done"
        /\ result' = "error"
        /\ failures' = failures \cup {"abs"}
        /\ UNCHANGED <<workDir, projectName>>
  /\ UNCHANGED <<flagVars, worldVars, planVars, files, modified, versionTag, versionDir,
                 matrix, numWorkers, collectVars, chanVars, workerVars,
                 pulled, invoked, postlog>>

\* the path elements of a slash-separated relative path
RECURSIVE SplitPath(_)
SplitPath(path) ==
  LET k == IndexOf(path, "/") IN
  IF k = 0 THEN <<path>>
  ELSE <<SubSeq(path, 1, k - 1)>> \o SplitPath(SubSeq(path, k + 1, Len(path)))

\* gitmeta.HeuristicDirty: the directories the walk does not enter
SkippedDirs ==
  {S(".git"), S("vendor"), S("builds"), S("dist"), S("bin"), S("out")}

\* gitmeta.HeuristicDirty: the file name endings the walk passes over
SkippedSuffixes ==
  {S(".exe"), S(".so"), S(".dylib"), S(".dll")}

\* whether the walk of gitmeta.HeuristicDirty from repoRoot looks at the
\* ModTime of the file at path
WalkChecks(repoRoot, path) ==
  /\ HasPrefix(path, repoRoot \o S("/"))
  /\ LET rel == SplitPath(SubSeq(path, Len(repoRoot) + 2, Len(path)))
         name == rel[Len(rel)]
     IN
     /\ \A i \in 1..(Len(rel) - 1) : rel[i] \notin SkippedDirs
     /\ name # S("pbuild")
     /\ \A sfx \in SkippedSuffixes : ~HasSuffix(name, sfx)

\* gitmeta.HeuristicDirty(repoRoot); without .git/HEAD (no revision either)
\* it reports false
HeuristicDirty(repoRoot) ==
  IF headRev = S("") THEN FALSE
  ELSE \/ treeDirty
       \/ \E p \in DOMAIN files : p \in modified /\ WalkChecks(repoRoot, p)

\* lines 504-520: the version tag
ResolvedVersionTagOverrideAsBase ==
  LET base == IF flagVersion # S("") THEN flagVersion
              ELSE IF srcVersion = S("") THEN appVersion ELSE srcVersion
      rev0 == IF headRev = S("") THEN S("unknown") ELSE headRev
      rev == IF HeuristicDirty(workDir) THEN rev0 \o S("-dirty") ELSE rev0
  IN base \o S("-") \o rev

ResolvedVersionTag ==
  IF flagVersion # S("") THEN flagVersion
  ELSE LET base == IF srcVersion = S("") THEN appVersion ELSE srcVersion
           rev0 == IF headRev = S("") THEN S("unknown") ELSE headRev
           rev == IF HeuristicDirty(workDir) THEN rev0 \o S("-dirty") ELSE rev0
       IN base \o S("-") \o rev

MainVersion ==
  /\ mainpc = "VersionResolve"
  /\ versionTag' = ResolvedVersionTag
  /\ mainpc' = "GitignoreCheck"
  /\ UNCHANGED <<flagVars, worldVars, planVars, files, modified, result, workDir,
                 projectName, versionDir, matrix, numWorkers, collectVars,
                 chanVars, workerVars, historyVars>>

\* lines 522-525 with checkAndUpdateGitignore (lines 136-182); an error is
\* only printed as a warning
MainGitignore ==
  /\ mainpc = "GitignoreCheck"
  /\ LET gitignorePath == PathJoin(workDir, S(".gitignore")) IN
     IF ~Exists(gitignorePath)
     THEN UNCHANGED <<files, modified, failures>>
     ELSE \/ \* os.ReadFile fails
             /\ failures' = failures \cup {"gitignore"}
             /\ UNCHANGED <<files, modified>>
          \/ /\ BuildsEntryFound(files[gitignorePath])
             /\ UNCHANGED <<files, modified, failures>>
          \/ /\ ~BuildsEntryFound(files[gitignorePath])
             /\ \/ /\ files' = WriteFile(files, gitignorePath,
                                         GitignoreNewContent(files[gitignorePath]))
                   /\ modified' = Stamp(files, files')
                   /\ UNCHANGED failures
                \/ \* os.WriteFile fails
                   /\ failures' = failures \cup {"gitignore"}
                   /\ UNCHANGED <<files, modified>>
  /\ mainpc' = "OutputPrepare"
  /\ UNCHANGED <<flagVars, worldVars, planVars, result, setupVars, matrix,
                 numWorkers, collectVars, chanVars, workerVars,
                 pulled, invoked, postlog>>

\* lines 527-538: the version directory
MainOutputWarningOnly ==
  /\ mainpc = "OutputPrepare"
  /\ LET outDir == PathJoin(workDir, flagOutDir)
         vdir == PathJoin(outDir, versionTag)
         cleaned == IF ~flagSkipCleanup THEN RemoveAll(files, vdir) ELSE files
     IN
     /\ versionDir' = vdir
     /\ files' = cleaned
     /\ modified' = Stamp(files, cleaned)
     /\ \/ /\ mainpc' = "Dispatch"
           /\ UNCHANGED <<result, failures>>
        \/ /\ mainpc' = "Dispatch"
           /\ failures' = failures \cup {"mkdir"}
           /\ UNCHANGED result
  /\ UNCHANGED <<flagVars, worldVars, planVars, workDir, projectName,
                 versionTag, matrix, numWorkers, collectVars, chanVars,
                 workerVars, pulled, invoked, postlog>>

MainOutput ==
  /\ mainpc = "OutputPrepare"
  /\ LET outDir == PathJoin(workDir, flagOutDir)
         vdir == PathJoin(outDir, versionTag)
         cleaned == IF ~flagSkipCleanup THEN RemoveAll(files, vdir) ELSE files
     IN
     /\ versionDir' = vdir
     /\ files' = cleaned
     /\ modified' = Stamp(files, cleaned)
     /\ \/ /\ mainpc' = "Dispatch"
           /\ UNCHANGED <<result, failures>>
        \/ \* os.MkdirAll fails
           /\ mainpc' = "Done"
           /\ result' = "error"
           /\ failures' = failures \cup {"mkdir"}
  /\ UNCHANGED <<flagVars, worldVars, planVars, workDir, projectName,
                 versionTag, matrix, numWorkers, collectVars, chanVars,
                 workerVars, pulled, invoked, postlog>>

\* lines 540-732: the matrix, the channels, the workers, the sender and the
\* closer are created; none of them has taken a step yet
MainDispatchOneWorkerMore ==
  /\ mainpc = "Dispatch"
  /\ LET m == IF flagAll THEN DefaultMatrix ELSE <<host>>
         n == (IF flagParallel <= 0 THEN 1 ELSE flagParallel) + 1
     IN
     /\ matrix' = m
     /\ numWorkers' = n
     /\ wg' = n
     /\ wpc' = [w \in Workers |-> IF w <= n THEN "pull" ELSE "none"]
  /\ targetChan' = <<>>
  /\ resultChan' = <<>>
  /\ targetClosed' = FALSE
  /\ resultClosed' = FALSE
  /\ senderpc' = "send"
  /\ sent' = 0
  /\ closerpc' = "wait"
  /\ mainpc' = "Collect"
  /\ UNCHANGED <<flagVars, worldVars, planVars, files, modified, result, setupVars,
                 collectVars, wt, wconfig, woutPath, wrow, historyVars>>

MainDispatch ==
  /\ mainpc = "Dispatch"
  /\ LET m == IF flagAll THEN DefaultMatrix ELSE <<host>>
         n == IF flagParallel <= 0 THEN 1 ELSE flagParallel
     IN
     /\ matrix' = m
     /\ numWorkers' = n
     /\ wg' = n
     /\ wpc' = [w \in Workers |-> IF w <= n THEN "pull" ELSE "none"]
  /\ targetChan' = <<>>
  /\ resultChan' = <<>>
  /\ targetClosed' = FALSE
  /\ resultClosed' = FALSE
  /\ senderpc' = "send"
  /\ sent' = 0
  /\ closerpc' = "wait"
  /\ mainpc' = "Collect"
  /\ UNCHANGED <<flagVars, worldVars, planVars, files, modified, result, setupVars,
                 collectVars, wt, wconfig, woutPath, wrow, historyVars>>

\* lines 721-726: the sender goroutine; targetChan has room for the matrix
SenderSend ==
  /\ senderpc = "send"
  /\ sent < Len(matrix)
  /\ Len(targetChan) < Len(matrix)
  /\ targetChan' = Append(targetChan, matrix[sent + 1])
  /\ sent' = sent + 1
  /\ UNCHANGED <<flagVars, worldVars, planVars, files, modified, mainpc, result,
                 setupVars, matrix, numWorkers, collectVars, targetClosed,
                 resultChan, resultClosed, wg, senderpc, closerpc,
                 workerVars, historyVars>>

SenderClose ==
  /\ senderpc = "send"
  /\ sent = Len(matrix)
  /\ targetClosed' = TRUE
  /\ senderpc' = "done"
  /\ UNCHANGED <<flagVars, worldVars, planVars, files, modified, mainpc, result,
                 setupVars, matrix, numWorkers, collectVars, targetChan,
                 resultChan, resultClosed, wg, sent, closerpc,
                 workerVars, historyVars>>

\* whether some call of BuildWithConfig has already returned an error
SomeBuildFailed ==
  \E t \in DOMAIN invoked : \E i \in 1..Len(invoked[t]) : ~invoked[t][i].ok

AppendAt(f, t, x) ==
  [u \in (DOMAIN f) \cup {t} |->
     IF u = t THEN (IF t \in DOMAIN f THEN Append(f[t], x) ELSE <<x>>)
     ELSE f[u]]

\* line 582: a worker receives a target
WorkerPull(w) ==
  /\ wpc[w] = "pull"
  /\ Len(targetChan) > 0
  /\ wt' = [wt EXCEPT ![w] = Head(targetChan)]
  /\ targetChan' = Tail(targetChan)
  /\ wpc' = [wpc EXCEPT ![w] = "resolve"]
  /\ pulled' = AppendAt(pulled, Head(targetChan),
                        [afterFailure |-> SomeBuildFailed])
  /\ UNCHANGED <<flagVars, worldVars, planVars, files, modified, mainpc, result,
                 setupVars, matrix, numWorkers, collectVars, targetClosed,
                 resultChan, resultClosed, wg, senderpc, sent, closerpc,
                 wconfig, woutPath, wrow, invoked, postlog, failures>>

\* line 582 on a closed and drained targetChan: the range loop ends and the
\* deferred wg.Done runs
WorkerExitWithoutDone(w) ==
  /\ wpc[w] = "pull"
  /\ Len(targetChan) = 0
  /\ targetClosed
  /\ wpc' = [wpc EXCEPT ![w] = "exit"]
  /\ UNCHANGED wg
  /\ UNCHANGED <<flagVars, worldVars, planVars, files, modified, mainpc, result,
                 setupVars, matrix, numWorkers, collectVars, targetChan,
                 targetClosed, resultChan, resultClosed, senderpc, sent,
                 closerpc, wt, wconfig, woutPath, wrow, historyVars>>

WorkerExit(w) ==
  /\ wpc[w] = "pull"
  /\ Len(targetChan) = 0
  /\ targetClosed
  /\ wpc' = [wpc EXCEPT ![w] = "exit"]
  /\ wg' = wg - 1
  /\ UNCHANGED <<flagVars, worldVars, planVars, files, modified, mainpc, result,
                 setupVars, matrix, numWorkers, collectVars, targetChan,
                 targetClosed, resultChan, resultClosed, senderpc, sent,
                 closerpc, wt, wconfig, woutPath, wrow, historyVars>>

\* lines 592-622: the BuildConfig of the target
ResolvedConfig ==
  LET buildMode == getBuildMode(flagBuildMode)
      strategy == getBuildStrategy(flagStrategy, buildMode)
  IN
  [Strategy |-> strategy,
   AMD64Level |-> flagAMD64Level, ARM64Level |-> flagARM64Level,
   ARMLevel |-> flagARMLevel, MIPSLevel |-> flagMIPSLevel,
   PPC64Level |-> flagPPC64Level, RISCVLevel |-> flagRISCVLevel,
   BuildMode |-> buildMode, Tags |-> flagTags,
   LDFlags |-> IF flagLDFlags = S("")
               THEN S("-s -w -X main.appVersion=") \o versionTag ELSE flagLDFlags,
   BuildFlags |-> flagBuildFlags, Verbose |-> flagVerbose,
   CleanCache |-> flagCleanCache]

\* lines 583-622: output name and path, build mode, strategy and config
WorkerResolve(w) ==
  /\ wpc[w] = "resolve"
  /\ woutPath' = [woutPath EXCEPT
                    ![w] = PathJoin(versionDir, OutputName(projectName, wt[w]))]
  /\ wconfig' = [wconfig EXCEPT ![w] = ResolvedConfig]
  /\ wpc' = [wpc EXCEPT ![w] = "invoke"]
  /\ UNCHANGED <<flagVars, worldVars, planVars, files, modified, mainpc, result,
                 setupVars, matrix, numWorkers, collectVars, chanVars,
                 wt, wrow, historyVars>>

TargetLabel(t) ==
  t.OS \o S("/") \o t.Arch

\* lines 624-638: gobuild.BuildWithConfig; on an error the failure row is
\* prepared for the send of line 630.  (With CleanCache the call first runs
\* "go clean -cache", whose outcome is ignored.)
WorkerInvokeThenAlwaysPost(w) ==
  /\ wpc[w] = "invoke"
  /\ \E ok \in BOOLEAN :
       /\ invoked' = AppendAt(invoked, wt[w],
            [config |-> wconfig[w], ok |-> ok,
             args |-> BuildArgs(wconfig[w], woutPath[w]),
             env |-> BuildEnv(workDir, wt[w], wconfig[w])])
       /\ IF ok
          THEN /\ files' = WriteFile(files, woutPath[w], Binary(wt[w]))
               /\ modified' = Stamp(files, files')
               /\ wpc' = [wpc EXCEPT ![w] = "post"]
               /\ UNCHANGED wrow
          ELSE /\ wrow' = [wrow EXCEPT ![w] =
                    [file |-> OutputName(projectName, wt[w]),
                     target |-> TargetLabel(wt[w]),
                     size |-> S("n/a"), sha256 |-> S("n/a"), status |-> redX]]
               /\ wpc' = [wpc EXCEPT ![w] = "post"]
               /\ UNCHANGED <<files, modified>>
  /\ UNCHANGED <<flagVars, worldVars, planVars, mainpc, result, setupVars,
                 matrix, numWorkers, collectVars, chanVars, wt, wconfig,
                 woutPath, pulled, postlog, failures>>

WorkerInvoke(w) ==
  /\ wpc[w] = "invoke"
  /\ \E ok \in BOOLEAN :
       /\ invoked' = AppendAt(invoked, wt[w],
            [config |-> wconfig[w], ok |-> ok,
             args |-> BuildArgs(wconfig[w], woutPath[w]),
             env |-> BuildEnv(workDir, wt[w], wconfig[w])])
       /\ IF ok
          THEN /\ files' = WriteFile(files, woutPath[w], Binary(wt[w]))
               /\ modified' = Stamp(files, files')
               /\ wpc' = [wpc EXCEPT ![w] = "post"]
               /\ UNCHANGED wrow
          ELSE /\ wrow' = [wrow EXCEPT ![w] =
                    [file |-> OutputName(projectName, wt[w]),
                     target |-> TargetLabel(wt[w]),
                     size |-> S("n/a"), sha256 |-> S("n/a"), status |-> redX]]
               /\ wpc' = [wpc EXCEPT ![w] = "emit"]
               /\ UNCHANGED <<files, modified>>
  /\ UNCHANGED <<flagVars, worldVars, planVars, mainpc, result, setupVars,
                 matrix, numWorkers, collectVars, chanVars, wt, wconfig,
                 woutPath, pulled, postlog, failures>>

\* filepath.Base(path)
RECURSIVE Base(_)
Base(path) ==
  LET k == IndexOf(path, "/") IN
  IF k = 0 THEN path ELSE Base(SubSeq(path, k + 1, Len(path)))

\* compressFile(inputPath, outputPath, method) run on the file system fs:
\* the outcomes it can have, as what it returns and what it leaves behind.
\* The output file is created (and truncated) before the method is looked
\* at; a failure after that point leaves an incomplete output behind.
CompressOutcomes(fs, inputPath, outputPath, method) ==
  \* os.Open or os.Create fails
  {[err |-> TRUE, fs |-> fs]}
  \cup
  (IF inputPath \notin DOMAIN fs THEN {}
   ELSE IF method \in {S("gzip"), S("zstd")}
   THEN {\* zstd.NewWriter, io.Copy or Close fails
         [err |-> TRUE, fs |-> WriteFile(fs, outputPath, PartialStream(method))],
         \* success
         [err |-> FALSE,
          fs |-> WriteFile(fs, outputPath, Compressed(method, fs[inputPath]))]}
   ELSE {\* unsupported compression method
         [err |-> TRUE, fs |-> WriteFile(fs, outputPath, S(""))]})

\* lines 642-664: what the compression step leaves: the file system, the
\* value of outPath and whether compression ran and succeeded
AfterCompress(fs, outPath) ==
  IF flagCompress = S("")
  THEN {[fs |-> fs, outPath |-> outPath, compress |-> "none"]}
  ELSE LET compressedPath == outPath \o CompressExt(flagCompress) IN
       {IF c.err
        THEN [fs |-> c.fs, outPath |-> outPath, compress |-> "failed"]
        ELSE [fs |-> RemoveFile(c.fs, outPath), outPath |-> compressedPath,
              compress |-> "ok"]
        : c \in CompressOutcomes(fs, outPath, compressedPath, flagCompress)}

\* lines 672-676: sizeStr
SizeOf(fs, path) ==
  IF path \in DOMAIN fs THEN SizeString(Len(fs[path])) ELSE S("n/a")

\* lines 678-694 with generateChecksums and writeChecksumFile: the file
\* system, sha256Str and what happened
AfterChecksumsDigestNeedsSidecar(fs, outPath) ==
  IF ~flagChecksums
  THEN {[fs |-> fs, sha256 |-> S("n/a"), checksum |-> "none"]}
  ELSE \* generateChecksums fails
       {[fs |-> fs, sha256 |-> S("n/a"), checksum |-> "failed"]}
       \cup
       (IF outPath \notin DOMAIN fs THEN {}
        ELSE {[fs |-> WriteFile(fs, outPath \o S(".hash"),
                        ChecksumFileContent(Base(outPath), SHA256(fs[outPath]),
                                            SHA512(fs[outPath]))),
               sha256 |-> SHA256(fs[outPath]), checksum |-> "ok"],
              \* writeChecksumFile fails
              [fs |-> fs, sha256 |-> S("n/a"),
               checksum |-> "sidecarFailed"]})

AfterChecksums(fs, outPath) ==
  IF ~flagChecksums
  THEN {[fs |-> fs, sha256 |-> S("n/a"), checksum |-> "none"]}
  ELSE \* generateChecksums fails
       {[fs |-> fs, sha256 |-> S("n/a"), checksum |-> "failed"]}
       \cup
       (IF outPath \notin DOMAIN fs THEN {}
        ELSE {[fs |-> WriteFile(fs, outPath \o S(".hash"),
                        ChecksumFileContent(Base(outPath), SHA256(fs[outPath]),
                                            SHA512(fs[outPath]))),
               sha256 |-> SHA256(fs[outPath]), checksum |-> "ok"],
              \* writeChecksumFile fails
              [fs |-> fs, sha256 |-> SHA256(fs[outPath]),
               checksum |-> "sidecarFailed"]})

\* lines 696-707: finalOutName
FinalOutName(outName) ==
  IF flagCompress # S("") THEN outName \o CompressExt(flagCompress) ELSE outName

\* lines 640-715: chmod (outcome ignored), compression, size, checksums and
\* the success row, prepared for the send of line 709
WorkerPost(w) ==
  /\ wpc[w] = "post"
  /\ \E c \in AfterCompress(files, woutPath[w]) :
       \E h \in AfterChecksums(c.fs, c.outPath) :
         /\ files' = h.fs
         /\ modified' = Stamp(files, h.fs)
         /\ woutPath' = [woutPath EXCEPT ![w] = c.outPath]
         /\ wrow' = [wrow EXCEPT ![w] =
              [file |-> FinalOutName(OutputName(projectName, wt[w])),
               target |-> TargetLabel(wt[w]),
               size |-> SizeOf(c.fs, c.outPath),
               sha256 |-> h.sha256,
               status |-> greenTick]]
         /\ postlog' = AppendAt(postlog, wt[w],
              [compress |-> c.compress, checksum |-> h.checksum,
               path |-> c.outPath])
  /\ wpc' = [wpc EXCEPT ![w] = "emit"]
  /\ UNCHANGED <<flagVars, worldVars, planVars, mainpc, result, setupVars,
                 matrix, numWorkers, collectVars, chanVars, wt, wconfig,
                 pulled, invoked, failures>>

\* lines 630 and 709: the row is sent (resultChan has room for the matrix)
\* and the iteration ends, its locals going out of scope
WorkerEmitDroppingFailures(w) ==
  /\ wpc[w] = "emit"
  /\ Len(resultChan) < Len(matrix)
  /\ resultChan' = IF wrow[w].status = redX THEN resultChan
                   ELSE Append(resultChan, wrow[w])
  /\ wpc' = [wpc EXCEPT ![w] = "pull"]
  /\ wt' = [wt EXCEPT ![w] = NoTarget]
  /\ wconfig' = [wconfig EXCEPT ![w] = ZeroConfig]
  /\ woutPath' = [woutPath EXCEPT ![w] = S("")]
  /\ wrow' = [wrow EXCEPT ![w] = ZeroRow]
  /\ UNCHANGED <<flagVars, worldVars, planVars, files, modified, mainpc, result,
                 setupVars, matrix, numWorkers, collectVars, targetChan,
                 targetClosed, resultClosed, wg, senderpc, sent, closerpc,
                 historyVars>>

WorkerEmit(w) ==
  /\ wpc[w] = "emit"
  /\ Len(resultChan) < Len(matrix)
  /\ resultChan' = Append(resultChan, wrow[w])
  /\ wpc' = [wpc EXCEPT ![w] = "pull"]
  /\ wt' = [wt EXCEPT ![w] = NoTarget]
  /\ wconfig' = [wconfig EXCEPT ![w] = ZeroConfig]
  /\ woutPath' = [woutPath EXCEPT ![w] = S("")]
  /\ wrow' = [wrow EXCEPT ![w] = ZeroRow]
  /\ UNCHANGED <<flagVars, worldVars, planVars, files, modified, mainpc, result,
                 setupVars, matrix, numWorkers, collectVars, targetChan,
                 targetClosed, resultClosed, wg, senderpc, sent, closerpc,
                 historyVars>>

\* lines 729-732: the closer goroutine
CloserCloseWithoutWait ==
  /\ closerpc = "wait"
  /\ resultClosed' = TRUE
  /\ closerpc' = "done"
  /\ UNCHANGED <<flagVars, worldVars, planVars, files, modified, mainpc, result,
                 setupVars, matrix, numWorkers, collectVars, targetChan,
                 targetClosed, resultChan, wg, senderpc, sent,
                 workerVars, historyVars>>

CloserClose ==
  /\ closerpc = "wait"
  /\ wg = 0
  /\ resultClosed' = TRUE
  /\ closerpc' = "done"
  /\ UNCHANGED <<flagVars, worldVars, planVars, files, modified, mainpc, result,
                 setupVars, matrix, numWorkers, collectVars, targetChan,
                 targetClosed, resultChan, wg, senderpc, sent,
                 workerVars, historyVars>>

\* lines 735-742: one iteration of the collection loop
MainCollect ==
  /\ mainpc = "Collect"
  /\ Len(resultChan) > 0
  /\ LET r == Head(resultChan) IN
     /\ rows' = Append(rows, r)
     /\ IF r.status = redX
        THEN failCount' = failCount + 1 /\ UNCHANGED successCount
        ELSE successCount' = successCount + 1 /\ UNCHANGED failCount
  /\ resultChan' = Tail(resultChan)
  /\ UNCHANGED <<flagVars, worldVars, planVars, files, modified, mainpc, result,
                 setupVars, matrix, numWorkers, table, metadata, targetChan,
                 targetClosed, resultClosed, wg, senderpc, sent, closerpc,
                 workerVars, historyVars>>

\* line 735 on a closed and drained resultChan: the loop ends
MainCollectEnd ==
  /\ mainpc = "Collect"
  /\ Len(resultChan) = 0
  /\ resultClosed
  /\ mainpc' = "Report"
  /\ UNCHANGED <<flagVars, worldVars, planVars, files, modified, result, setupVars,
                 matrix, numWorkers, collectVars, chanVars, workerVars,
                 historyVars>>

\* lines 744-766: the artifact table and the summary counts
MainReport ==
  /\ mainpc = "Report"
  /\ table' = <<[rows |-> rows, total |-> successCount + failCount,
                 success |-> successCount, failed |-> failCount]>>
  /\ mainpc' = "Persist"
  /\ UNCHANGED <<flagVars, worldVars, planVars, files, modified, result, setupVars,
                 matrix, numWorkers, rows, successCount, failCount, metadata,
                 chanVars, workerVars, historyVars>>

\* lines 776-782: the names of the rows with the success glyph
RECURSIVE Artifacts(_)
Artifacts(rs) ==
  IF Len(rs) = 0 THEN <<>>
  ELSE (IF Head(rs).status = greenTick THEN <<Head(rs).file>> ELSE <<>>)
       \o Artifacts(Tail(rs))

\* lines 784-837: the BuildMetadata value (the fields taken from the clock,
\* the host and the user are left out)
MetadataOfResolvedConfig ==
  [ProjectName |-> projectName,
   Version |-> versionTag,
   Targets |-> matrix,
   BuildConfig |-> ResolvedConfig,
   Flags |->
     [all |-> flagAll, name |-> flagName, output_dir |-> flagOutDir,
      version |-> flagVersion, strategy |-> flagStrategy,
      buildmode |-> flagBuildMode, tags |-> flagTags, ldflags |-> flagLDFlags,
      stop_on_error |-> flagStopOnError, parallel |-> flagParallel,
      compress |-> flagCompress, checksums |-> flagChecksums],
   Artifacts |-> Artifacts(rows),
   SuccessCount |-> successCount,
   FailCount |-> failCount]

Metadata ==
  [ProjectName |-> projectName,
   Version |-> versionTag,
   Targets |-> matrix,
   BuildConfig |->
     [Strategy |-> ParseStrategy(flagStrategy),
      AMD64Level |-> flagAMD64Level, ARM64Level |-> flagARM64Level,
      ARMLevel |-> flagARMLevel, MIPSLevel |-> flagMIPSLevel,
      PPC64Level |-> flagPPC64Level, RISCVLevel |-> flagRISCVLevel,
      BuildMode |-> flagBuildMode, Tags |-> flagTags, LDFlags |-> flagLDFlags,
      BuildFlags |-> flagBuildFlags, Verbose |-> flagVerbose,
      CleanCache |-> flagCleanCache],
   Flags |->
     [all |-> flagAll, name |-> flagName, output_dir |-> flagOutDir,
      version |-> flagVersion, strategy |-> flagStrategy,
      buildmode |-> flagBuildMode, tags |-> flagTags, ldflags |-> flagLDFlags,
      stop_on_error |-> flagStopOnError, parallel |-> flagParallel,
      compress |-> flagCompress, checksums |-> flagChecksums],
   Artifacts |-> Artifacts(rows),
   SuccessCount |-> successCount,
   FailCount |-> failCount]

\* lines 839-845 with writeBuildMetadata; a failure is only printed as a
\* warning, and run returns nil
MainPersistFailureReturned ==
  /\ mainpc = "Persist"
  /\ \/ /\ files' = WriteFile(files, PathJoin(versionDir, S("build-metadata.json")),
                              <<"json">>)
        /\ modified' = Stamp(files, files')
        /\ metadata' = Append(metadata, Metadata)
        /\ result' = "nil"
        /\ UNCHANGED failures
     \/ /\ failures' = failures \cup {"metadata"}
        /\ result' = "error"
        /\ UNCHANGED <<files, modified, metadata>>
  /\ mainpc' = "Done"
  /\ UNCHANGED <<flagVars, worldVars, planVars, setupVars, matrix, numWorkers,
                 rows, successCount, failCount, table, chanVars, workerVars,
                 pulled, invoked, postlog>>

MainPersist ==
  /\ mainpc = "Persist"
  /\ \/ /\ files' = WriteFile(files, PathJoin(versionDir, S("build-metadata.json")),
                              <<"json">>)
        /\ modified' = Stamp(files, files')
        /\ metadata' = Append(metadata, Metadata)
        /\ UNCHANGED failures
     \/ \* json.MarshalIndent or os.WriteFile fails
        /\ failures' = failures \cup {"metadata"}
        /\ UNCHANGED <<files, modified, metadata>>
  /\ result' = "nil"
  /\ mainpc' = "Done"
  /\ UNCHANGED <<flagVars, worldVars, planVars, setupVars, matrix, numWorkers,
                 rows, successCount, failCount, table, chanVars, workerVars,
                 pulled, invoked, postlog>>


\* a further invocation of pbuild with the same command line in the same
\* directory, after the previous process has exited: run starts again on the
\* file system the earlier runs left
MaxRuns == 2

MainRestart ==
  /\ mainpc = "Done"
  /\ Len(prevTags) < MaxRuns - 1
  /\ prevTags' = Append(prevTags, versionTag)
  /\ mainpc' = "Init"
  /\ result' = "running"
  /\ workDir' = S("")
  /\ projectName' = S("")
  /\ versionTag' = S("")
  /\ versionDir' = S("")
  /\ matrix' = <<>>
  /\ numWorkers' = 0
  /\ rows' = <<>>
  /\ successCount' = 0
  /\ failCount' = 0
  /\ table' = <<>>
  /\ metadata' = <<>>
  /\ targetChan' = <<>>
  /\ targetClosed' = FALSE
  /\ resultChan' = <<>>
  /\ resultClosed' = FALSE
  /\ wg' = 0
  /\ senderpc' = "none"
  /\ sent' = 0
  /\ closerpc' = "none"
  /\ wpc' = [w \in Workers |-> "none"]
  /\ wt' = [w \in Workers |-> NoTarget]
  /\ wconfig' = [w \in Workers |-> ZeroConfig]
  /\ woutPath' = [w \in Workers |-> S("")]
  /\ wrow' = [w \in Workers |-> ZeroRow]
  /\ pulled' = [t \in {} |-> <<>>]
  /\ invoked' = [t \in {} |-> <<>>]
  /\ postlog' = [t \in {} |-> <<>>]
  /\ failures' = {}
  /\ UNCHANGED <<flagVars, environ, goModDirs, targetDir, host, srcVersion,
                 headRev, treeDirty, files, modified, planVars>>
(***************************************************************************)
(* Properties of the resolver (checked under SpecPlan)                     *)
(***************************************************************************)
Calls ==
  1..Len(resolved)

\* the entries a call appended to the inherited environment
Overrides(r) ==
  SubSeq(r.env, Len(environ) + 1, Len(r.env))

\* the value exec gives a variable: the last entry of env that sets it wins
LastSetting(env, prefix) ==
  LET hits == {k \in 1..Len(env) : HasPrefix(env[k], prefix)} IN
  IF hits = {} THEN S("")
  ELSE env[CHOOSE k \in hits : \A m \in hits : m <= k]

Recognized(s) ==
  ToLower(s) \in {S("flexible"), S("purego"), S("traditional")}

\* C5: a call configured from an unrecognized strategy string hands the
\* toolchain the same arguments and environment as a call configured from
\* "purego" for the same target, config and working directory.
C5_UnrecognizedIsPurego ==
  \A i \in Calls, j \in Calls :
    ( /\ ~Recognized(resolved[i].str)
      /\ resolved[j].str = S("purego")
      /\ resolved[i].workDir = resolved[j].workDir )
    => /\ resolved[i].args = resolved[j].args
       /\ resolved[i].env = resolved[j].env
       /\ resolved[i].config.Strategy = NoCGOEver

C5_Witness ==
  \E i \in Calls, j \in Calls :
    /\ resolved[i].str = S("static")
    /\ resolved[j].str = S("purego")
    /\ resolved[i].workDir = resolved[j].workDir

ClaimedStrategyTags(strategy) ==
  CASE strategy = FlexibleCGO -> S("netgo,osusergo")
    [] strategy = NoCGOEver -> S("purego,netgo,osusergo")
    [] strategy = TraditionalCGO -> S("")

CpuVarPrefixes ==
  {S("GOAMD64="), S("GOARM64="), S("GOARM="), S("GOMIPS="), S("GOPPC64="), S("GORISCV64=")}

\* the CPU feature entry the claim gives for an architecture
ClaimedCpuEntry(t, config) ==
  CASE t.Arch = S("amd64") -> S("GOAMD64=") \o config.AMD64Level
    [] t.Arch = S("arm64") -> S("GOARM64=") \o config.ARM64Level
    [] t.Arch = S("arm") -> S("GOARM=") \o config.ARMLevel
    [] t.Arch = S("mips") -> S("GOMIPS=") \o config.MIPSLevel
    [] t.Arch = S("mipsle") -> S("GOMIPS=") \o config.MIPSLevel
    [] t.Arch = S("ppc64") -> S("GOPPC64=") \o config.PPC64Level
    [] t.Arch = S("ppc64le") -> S("GOPPC64=") \o config.PPC64Level
    [] t.Arch = S("riscv64") -> S("GORISCV64=") \o config.RISCVLevel
    [] OTHER -> S("")

\* C9: for an architecture of the table exactly one CPU feature variable is
\* appended to the environment, the one of its family with the configured
\* level; for any other architecture none is appended.
C9_OneCpuFeatureVariable ==
  \A i \in Calls :
    LET r == resolved[i]
        ov == Overrides(r)
        cpu == {k \in 1..Len(ov) : \E p \in CpuVarPrefixes : HasPrefix(ov[k], p)}
        want == ClaimedCpuEntry(r.t, r.config)
    IN
    IF want = S("") THEN cpu = {}
    ELSE /\ Cardinality(cpu) = 1
         /\ \A k \in cpu : ov[k] = want

C9_Witness ==
  \E i \in Calls :
    /\ resolved[i].t.Arch = S("arm64")
    /\ resolved[i].config.ARM64Level = S("v9.0")
    /\ Contains(Overrides(resolved[i]), S("GOARM64=") \o S("v9.0"))

(***************************************************************************)
(* Properties of run                                                       *)
(***************************************************************************)
\* the collection loop has ended
Collected ==
  \/ mainpc \in {"Report", "Persist"}
  \/ mainpc = "Done" /\ result = "nil"

MatrixTargets ==
  {matrix[i] : i \in 1..Len(matrix)}

Count(f, t) ==
  IF t \in DOMAIN f THEN Len(f[t]) ELSE 0

\* the rows sent so far, collected or still in resultChan
Emitted ==
  rows \o resultChan

RowsOf(rs, t) ==
  {i \in 1..Len(rs) : rs[i].target = TargetLabel(t)}

\* C1: no target is ever received twice, built twice or reported twice; once
\* the collection loop has ended, every target of the matrix has been
\* received by one worker, built once and reported in one row, there are N
\* rows and successCount + failCount = N.
C1_OneResultPerTarget ==
  /\ \A t \in AllTargets :
       /\ Count(pulled, t) <= 1
       /\ Count(invoked, t) <= 1
       /\ Cardinality(RowsOf(Emitted, t)) <= 1
  /\ Collected =>
       /\ \A t \in MatrixTargets :
            /\ Count(pulled, t) = 1
            /\ Count(invoked, t) = 1
            /\ Cardinality(RowsOf(rows, t)) = 1
       /\ Len(rows) = Len(matrix)
       /\ successCount + failCount = Len(matrix)
       /\ Len(matrix) >= 1

C1_Witness ==
  /\ mainpc = "Done"
  /\ result = "nil"
  /\ Len(matrix) = MaxTargets
  /\ numWorkers = MaxParallel
  /\ successCount >= 1
  /\ failCount >= 1

\* C2 as claimed: with stop-on-error no build is started for a target that
\* was still unpulled when a build had failed, and every target that was
\* pulled is built and reported.
C2_StopOnErrorSkipsUnpulled ==
  flagStopOnError =>
    /\ \A t \in DOMAIN invoked : ~pulled[t][1].afterFailure
    /\ Collected =>
         \A t \in DOMAIN pulled :
           ~pulled[t][1].afterFailure => Cardinality(RowsOf(rows, t)) = 1

\* C3: run returns an error exactly when filepath.Abs or os.MkdirAll failed;
\* when it returns nil every target of the matrix was built, whatever
\* failed on the way.
C3_ErrorIffSetupFails ==
  /\ mainpc # "Done" => result = "running"
  /\ mainpc = "Done" =>
       /\ result \in {"nil", "error"}
       /\ result = "error" <=> (failures \cap {"abs", "mkdir"} # {})
       /\ result = "nil" => \A t \in MatrixTargets : Count(invoked, t) = 1

C3_Witness ==
  /\ mainpc = "Done"
  /\ result = "nil"
  /\ failures = {"gitignore", "metadata"}
  /\ srcVersion = S("")
  /\ \E t \in DOMAIN invoked : ~invoked[t][1].ok
  /\ \E t \in DOMAIN invoked : invoked[t][1].ok
  /\ \E t \in DOMAIN postlog : postlog[t][1].checksum = "failed"

\* C4 as claimed: when the build mode is pie and the strategy string
\* resolves to NoCGOEver, every call of BuildWithConfig is made with
\* FlexibleCGO, and no call is made with pie and NoCGOEver.
C4_PieNeverFullyStatic ==
  \A t \in DOMAIN invoked : \A i \in 1..Len(invoked[t]) :
    LET c == invoked[t][i].config IN
    /\ ~(c.BuildMode = S("pie") /\ c.Strategy = NoCGOEver)
    /\ (getBuildMode(flagBuildMode) = S("pie") /\ ParseStrategy(flagStrategy) = NoCGOEver)
         => c.Strategy = FlexibleCGO

\* C10 as claimed: a success row whose compression failed names the plain
\* output file, which is still on disk; the suffix is reported and the
\* original deleted only when compression succeeded; the file a success row
\* names exists in the version directory.
C10_RowNamesTheArtifactOnDisk ==
  \A t \in DOMAIN postlog : \A i \in RowsOf(Emitted, t) :
    LET r == Emitted[i]
        outName == OutputName(projectName, t)
        log == postlog[t][1]
    IN
    r.status = greenTick =>
      /\ log.compress = "failed" =>
           /\ Exists(PathJoin(versionDir, outName))
           /\ r.file = outName
      /\ log.compress = "ok" =>
           /\ ~Exists(PathJoin(versionDir, outName))
           /\ r.file = outName \o CompressExt(flagCompress)
      /\ Exists(PathJoin(versionDir, r.file))

\* the compression methods compressFile supports
SupportedMethods ==
  {S("gzip"), S("zstd")}

\* C11 as claimed: with a compression method other than gzip and zstd the
\* success row names the plain output file, and that file still holds the
\* bytes the toolchain produced and is reported with their size.
C11_UnsupportedMethodIsNoOp ==
  (flagCompress # S("") /\ flagCompress \notin SupportedMethods) =>
    \A t \in DOMAIN postlog : \A i \in RowsOf(Emitted, t) :
      LET r == Emitted[i]
          outName == OutputName(projectName, t)
          path == PathJoin(versionDir, outName)
      IN
      r.status = greenTick =>
        /\ r.file = outName
        /\ Exists(path)
        /\ files[path] = Binary(t)
        /\ r.size = SizeString(Len(Binary(t)))

\* the path of the final artifact of target t, from what the compression
\* step did
FinalArtifact(t) ==
  LET outName == OutputName(projectName, t) IN
  IF postlog[t][1].compress = "ok"
  THEN PathJoin(versionDir, outName \o CompressExt(flagCompress))
  ELSE PathJoin(versionDir, outName)

SidecarPaths ==
  {p \in DOMAIN files : HasSuffix(p, S(".hash"))}

\* C12: with checksums enabled the digest of a success row is the SHA-256 of
\* the final artifact (the compressed file when compression succeeded, the
\* plain output file otherwise) and the sidecar <final artifact>.hash holds
\* both digests; a digest failure leaves n/a, a sidecar failure still shows
\* the digest, and the row stays a success row; with checksums disabled the
\* digest is n/a and there is no sidecar.
C12_DigestOfFinalArtifact ==
  /\ \A t \in DOMAIN postlog : \A i \in RowsOf(Emitted, t) :
       LET r == Emitted[i]
           log == postlog[t][1]
           final == FinalArtifact(t)
       IN
       /\ r.status = greenTick
       /\ flagChecksums <=> log.checksum # "none"
       /\ log.checksum = "none" => r.sha256 = S("n/a")
       /\ log.checksum = "failed" => r.sha256 = S("n/a")
       /\ log.checksum \in {"ok", "sidecarFailed"} =>
            /\ Exists(final)
            /\ r.sha256 = SHA256(files[final])
       /\ log.checksum = "ok" =>
            /\ Exists(final \o S(".hash"))
            /\ files[final \o S(".hash")] =
                 ChecksumFileContent(Base(final), SHA256(files[final]),
                                     SHA512(files[final]))
       /\ log.checksum # "ok" => ~Exists(final \o S(".hash"))
  /\ ~flagChecksums => SidecarPaths = {}

C12_Witness ==
  /\ flagChecksums
  /\ flagCompress = S("gzip")
  /\ mainpc = "Done"
  /\ \E t \in DOMAIN postlog :
       /\ postlog[t][1].compress = "ok"
       /\ postlog[t][1].checksum = "ok"
       /\ RowsOf(rows, t) # {}
  /\ \E t \in DOMAIN postlog :
       /\ postlog[t][1].compress = "failed"
       /\ postlog[t][1].checksum = "sidecarFailed"
       /\ RowsOf(rows, t) # {}

\* <base>-<revision>[-dirty]
TagOfShape(base, revision, dirty) ==
  base \o S("-") \o revision \o (IF dirty THEN S("-dirty") ELSE S(""))

\* the base and the revision discovered without an override
DiscoveredBase ==
  IF srcVersion # S("") THEN srcVersion ELSE appVersion

DiscoveredRevision ==
  IF headRev # S("") THEN headRev ELSE S("unknown")

\* C13 as claimed: the tag run resolves is <base>-<revision>[-dirty], with
\* base the override when one is given, else the version found in the
\* sources, else the embedded constant; revision the short revision or
\* unknown; and -dirty exactly when the heuristic reports true.
C13_TagShapeWithOverrideAsBase ==
  [][(mainpc = "VersionResolve" /\ mainpc' # mainpc) =>
       versionTag' =
         TagOfShape(IF flagVersion # S("") THEN flagVersion ELSE DiscoveredBase,
                    DiscoveredRevision, HeuristicDirty(workDir))]_vars

\* C13 amended: an override is the whole tag, used verbatim; without one the
\* tag is <base>-<revision>[-dirty] with base the version found in the
\* sources or else the embedded constant, revision the short revision or
\* unknown, and -dirty exactly when the heuristic reports true.
C13_TagShape ==
  [][(mainpc = "VersionResolve" /\ mainpc' # mainpc) =>
       versionTag' =
         IF flagVersion # S("") THEN flagVersion
         ELSE TagOfShape(DiscoveredBase, DiscoveredRevision,
                         HeuristicDirty(workDir))]_vars

C13_Witness ==
  /\ mainpc = "Done"
  /\ result = "nil"
  /\ flagVersion = S("2.0.0")
  /\ srcVersion = S("3.1.0")
  /\ headRev = S("abc1234")
  /\ treeDirty
  /\ versionTag = S("2.0.0")
  /\ Exists(PathJoin(PathJoin(PathJoin(workDir, flagOutDir), S("2.0.0")),
                     S("build-metadata.json")))

\* the steps of run in the order of its statements
StepsOfRun ==
  <<"Init", "VersionResolve", "GitignoreCheck", "OutputPrepare", "Dispatch",
    "Collect", "Report", "Persist", "Done">>

\* the steps in the order the claim gives
StepsAsClaimed ==
  <<"Init", "GitignoreCheck", "VersionResolve", "OutputPrepare", "Dispatch",
    "Collect", "Report", "Persist", "Done">>

StepIndex(steps, s) ==
  CHOOSE i \in 1..Len(steps) : steps[i] = s

\* the orchestrator moves to the next step of steps, or aborts to Done
AdvancesAlong(steps) ==
  mainpc' # mainpc =>
    \/ StepIndex(steps, mainpc') = StepIndex(steps, mainpc) + 1
    \/ /\ mainpc' = "Done"
       /\ result' = "error"
       /\ StepIndex(steps, mainpc) < StepIndex(steps, "Done")

\* C14 as claimed: the orchestrator goes through Init, GitignoreCheck,
\* VersionResolve, OutputPrepare, Dispatch, Collect, Report, Persist, Done
\* in this order, each step at most once.
C14_StepsInClaimedOrder ==
  [][AdvancesAlong(StepsAsClaimed)]_vars

\* C14 amended: the orchestrator goes through Init, VersionResolve,
\* GitignoreCheck, OutputPrepare, Dispatch, Collect, Report, Persist, Done
\* in this order, each step at most once (an abort goes straight to Done):
\* the version tag and the dirty flag are resolved before .gitignore is
\* checked and possibly written.
C14_StepsInOrder ==
  [][/\ AdvancesAlong(StepsOfRun)
     /\ (mainpc = "GitignoreCheck" /\ mainpc' # mainpc) =>
          /\ versionTag # S("")
          /\ versionTag' = versionTag]_vars

C14_Witness ==
  /\ mainpc = "Done"
  /\ result = "nil"
  /\ Exists(PathJoin(workDir, S(".gitignore")))
  /\ PathJoin(workDir, S(".gitignore")) \in modified
  /\ BuildsEntryFound(files[PathJoin(workDir, S(".gitignore"))])
  /\ versionTag = TagOfShape(appVersion, S("abc1234"), FALSE)

\* C15 as claimed: consecutive runs with the same command line, no source
\* edit and no new commit resolve the same version tag; what an earlier run
\* wrote never changes the tag of a later one.
C15_TagReproducible ==
  (mainpc \notin {"Init", "VersionResolve"} /\ versionTag # S("")) =>
    \A i \in 1..Len(prevTags) :
      prevTags[i] # S("") => versionTag = prevTags[i]

\* positions i..j of content are one of its lines (without the newline)
IsLine(content, i, j) ==
  /\ i = 1 \/ content[i - 1] = "\n"
  /\ j = Len(content) \/ content[j + 1] = "\n"
  /\ \A k \in i..j : content[k] # "\n"

\* the lines of content that are builds/ between optional white space
BuildsLines(content) ==
  {ij \in (1..Len(content)) \X (1..Len(content)) :
     /\ IsLine(content, ij[1], ij[2])
     /\ \E a \in ij[1]..(ij[2] - 6) :
          /\ SubSeq(content, a, a + 6) = S("builds/")
          /\ \A k \in (ij[1]..(a - 1)) \cup ((a + 7)..ij[2]) :
               IsSpace(content[k])}

\* the content followed by the line builds/, after a newline when it is not
\* empty and does not end in one
WithBuildsLine(content) ==
  content
  \o (IF content # <<>> /\ content[Len(content)] # "\n" THEN <<"\n">> ELSE <<>>)
  \o S("builds/") \o <<"\n">>

WrittenNames(name) ==
  LET artifacts == {name, name \o S(".gz"), name \o S(".zst")} IN
  artifacts \cup {a \o S(".hash") : a \in artifacts}

InvokedConfigs ==
  UNION {{invoked[t][i].config : i \in 1..Len(invoked[t])} : t \in DOMAIN invoked}

\* C18 as claimed: the BuildConfig of the persisted metadata is the
\* configuration that was passed to the toolchain for the targets of the
\* run, and its build mode is not auto.
C18_MetadataHoldsResolvedConfig ==
  \A k \in 1..Len(metadata) :
    /\ \A c \in InvokedConfigs : metadata[k].BuildConfig = c
    /\ metadata[k].BuildConfig.BuildMode # S("auto")

\* C18 amended: the BuildConfig of the persisted metadata is built from the
\* flags as requested: its Strategy is ParseStrategy of the requested string
\* (before any pie escalation), its BuildMode the requested mode (auto
\* included) and its LDFlags the flag as given (empty when none were);
\* every other field is the one passed to the toolchain.
C18_MetadataHoldsRequestedConfig ==
  \A k \in 1..Len(metadata) :
    LET md == metadata[k].BuildConfig IN
    /\ md.Strategy = ParseStrategy(flagStrategy)
    /\ md.BuildMode = flagBuildMode
    /\ md.LDFlags = flagLDFlags
    /\ InvokedConfigs # {}
    /\ \A c \in InvokedConfigs :
         md = [c EXCEPT !.Strategy = md.Strategy, !.BuildMode = md.BuildMode,
                        !.LDFlags = md.LDFlags]

C18_Witness ==
  /\ mainpc = "Done"
  /\ Len(metadata) = 1
  /\ flagStrategy = S("purego")
  /\ flagBuildMode = S("pie")
  /\ flagLDFlags = S("")
  /\ metadata[1].BuildConfig.Strategy = NoCGOEver
  /\ \E c \in InvokedConfigs :
       /\ c.Strategy = FlexibleCGO
       /\ c.BuildMode = S("pie")
       /\ c.LDFlags # S("")

\* the calls of BuildWithConfig made in this run
InvokedCalls ==
  UNION {{[t |-> t, call |-> invoked[t][i]] : i \in 1..Len(invoked[t])} :
           t \in DOMAIN invoked}

C20_MkdirFailureAbortsBeforeWorkers ==
  "mkdir" \in failures =>
    /\ mainpc = "Done"
    /\ result = "error"
    /\ numWorkers = 0
    /\ \A w \in Workers : wpc[w] = "none"
    /\ senderpc = "none"
    /\ DOMAIN pulled = {}
    /\ DOMAIN invoked = {}
    /\ rows = <<>>
    /\ resultChan = <<>>
    /\ table = <<>>
    /\ metadata = <<>>
    /\ ~Exists(PathJoin(versionDir, S("build-metadata.json")))

C20_Witness ==
  /\ "mkdir" \in failures
  /\ mainpc = "Done"
  /\ flagAll
  /\ flagParallel = MaxParallel
  /\ versionDir # S("")

(***************************************************************************)
(* Properties of the worker pool                                           *)
(***************************************************************************)
\* every worker goroutine that was started has left its loop and run its
\* deferred wg.Done
AllWorkersDone ==
  /\ numWorkers >= 1
  /\ wg = 0
  /\ \A w \in Workers : wpc[w] = (IF w <= numWorkers THEN "exit" ELSE "none")

\* C21: resultChan is closed only when every worker has finished; when the
\* report is rendered every row that was sent has been collected; the
\* metadata document is written at most once, by the orchestrator in its
\* Persist step, after every worker has finished and every row has been
\* collected.
C21_CollectionBarrier ==
  /\ resultClosed => AllWorkersDone
  /\ (mainpc \in {"Report", "Persist"} \/ table # <<>>) =>
       /\ resultClosed
       /\ resultChan = <<>>
       /\ \A t \in DOMAIN invoked : Cardinality(RowsOf(rows, t)) = 1
       /\ Len(rows) = Cardinality(DOMAIN invoked)
  /\ table # <<>> => table[1].rows = rows
  /\ Len(metadata) <= 1
  /\ (metadata # <<>> \/ Exists(PathJoin(versionDir, S("build-metadata.json")))) =>
       /\ mainpc = "Done"
       /\ table # <<>>
       /\ AllWorkersDone
       /\ resultClosed
       /\ resultChan = <<>>

C21_Witness ==
  /\ mainpc = "Done"
  /\ Len(metadata) = 1
  /\ Exists(PathJoin(versionDir, S("build-metadata.json")))
  /\ Len(matrix) = MaxTargets
  /\ numWorkers = MaxParallel
  /\ Len(rows) = MaxTargets

\* the targets that were received from targetChan and whose row has not
\* been sent yet
InFlight ==
  {t \in DOMAIN pulled : RowsOf(Emitted, t) = {}}

\* C22: at most max(1, parallel) targets are in flight at any moment; with
\* parallel <= 0 there is one worker, at most one target is in flight and
\* the rows are sent in the order of the matrix.
C22_AtMostParallelInFlight ==
  /\ Cardinality(InFlight) <= (IF flagParallel >= 1 THEN flagParallel ELSE 1)
  /\ Cardinality({w \in Workers : wpc[w] \in {"resolve", "invoke", "post", "emit"}})
       = Cardinality(InFlight)
  /\ (flagParallel <= 0 /\ matrix # <<>>) =>
       /\ numWorkers = 1
       /\ Cardinality({w \in Workers : wpc[w] # "none"}) = 1
       /\ Cardinality(InFlight) <= 1
       /\ Len(Emitted) <= Len(matrix)
       /\ \A i \in 1..Len(Emitted) : Emitted[i].target = TargetLabel(matrix[i])

C22_Witness ==
  /\ flagParallel = MaxParallel
  /\ Cardinality(InFlight) = MaxParallel
  /\ \A w \in Workers : wpc[w] = "invoke"

\* the row run sends for a target whose build failed
FailureRow(t) ==
  [file |-> OutputName(projectName, t), target |-> TargetLabel(t),
   size |-> S("n/a"), sha256 |-> S("n/a"), status |-> redX]

\* C23: for each target the configuration is resolved before the toolchain
\* is invoked, post-processing comes after the invoke and the row is sent
\* last; post-processing runs only for a target whose invoke succeeded; a
\* target whose invoke failed has no post-processing, no file of its own in
\* the version directory, and one row with the plain output name, size n/a,
\* digest n/a and the failure glyph.
C23_StepsOfATargetInOrder ==
  /\ \A t \in DOMAIN invoked :
       /\ t \in DOMAIN pulled
       /\ Len(invoked[t]) = 1
       /\ invoked[t][1].config = ResolvedConfig
  /\ \A t \in DOMAIN postlog :
       /\ t \in DOMAIN invoked
       /\ invoked[t][1].ok
       /\ Len(postlog[t]) = 1
  /\ \A t \in AllTargets : \A i \in RowsOf(Emitted, t) :
       /\ t \in DOMAIN invoked
       /\ invoked[t][1].ok => (t \in DOMAIN postlog /\ Emitted[i].status = greenTick)
  /\ \A w \in Workers :
       /\ wpc[w] \in {"resolve", "invoke"} =>
            (wt[w] \notin DOMAIN invoked /\ wt[w] \notin DOMAIN postlog)
       /\ wpc[w] = "post" =>
            /\ wt[w] \in DOMAIN invoked
            /\ invoked[wt[w]][1].ok
            /\ wt[w] \notin DOMAIN postlog
       /\ wpc[w] = "emit" =>
            /\ wt[w] \in DOMAIN invoked
            /\ invoked[wt[w]][1].ok <=> wt[w] \in DOMAIN postlog
       /\ wpc[w] \in {"resolve", "invoke", "post", "emit"} =>
            RowsOf(Emitted, wt[w]) = {}
  /\ \A t \in DOMAIN invoked :
       ~invoked[t][1].ok =>
         /\ t \notin DOMAIN postlog
         /\ \A n \in WrittenNames(OutputName(projectName, t)) :
              ~Exists(PathJoin(versionDir, n))
         /\ Cardinality(RowsOf(Emitted, t)) <= 1
         /\ \A i \in RowsOf(Emitted, t) : Emitted[i] = FailureRow(t)
         /\ Collected => Cardinality(RowsOf(rows, t)) = 1

C23_Witness ==
  /\ mainpc = "Done"
  /\ flagCompress = S("gzip")
  /\ flagChecksums
  /\ \E t \in DOMAIN invoked :
       /\ ~invoked[t][1].ok
       /\ \E i \in RowsOf(rows, t) : rows[i].file = OutputName(projectName, t)
  /\ \E t \in DOMAIN postlog :
       /\ postlog[t][1].compress = "ok"
       /\ \E i \in RowsOf(rows, t) : rows[i].status = greenTick

(***************************************************************************)
(* Specifications                                                          *)
(***************************************************************************)
\* the state of run before its first statement
InitRun ==
  /\ mainpc = "Init"
  /\ result = "running"
  /\ workDir = S("")
  /\ projectName = S("")
  /\ versionTag = S("")
  /\ versionDir = S("")
  /\ matrix = <<>>
  /\ numWorkers = 0
  /\ rows = <<>>
  /\ successCount = 0
  /\ failCount = 0
  /\ table = <<>>
  /\ metadata = <<>>
  /\ targetChan = <<>>
  /\ targetClosed = FALSE
  /\ resultChan = <<>>
  /\ resultClosed = FALSE
  /\ wg = 0
  /\ senderpc = "none"
  /\ sent = 0
  /\ closerpc = "none"
  /\ wpc = [w \in Workers |-> "none"]
  /\ wt = [w \in Workers |-> NoTarget]
  /\ wconfig = [w \in Workers |-> ZeroConfig]
  /\ woutPath = [w \in Workers |-> S("")]
  /\ wrow = [w \in Workers |-> ZeroRow]
  /\ pulled = [t \in {} |-> <<>>]
  /\ invoked = [t \in {} |-> <<>>]
  /\ postlog = [t \in {} |-> <<>>]
  /\ failures = {}

\* a project directory with a go.mod, a git checkout at abc1234 and either
\* no .gitignore or one that does not list builds/
InitWorld ==
  /\ environ = <<S("HOME=/root")>>
  /\ goModDirs = {S("/proj")}
  /\ targetDir = S("/proj")
  /\ host = Target(S("linux"), S("amd64"))
  /\ srcVersion = S("")
  /\ headRev = S("abc1234")
  /\ treeDirty = FALSE
  /\ prevTags = <<>>
  /\ files \in {[p \in {} |-> S("")],
                [p \in {PathJoin(S("/proj"), S(".gitignore"))} |-> S("node_modules")]}
  /\ modified = {}

\* the flag defaults of main (lines 252-279)
DefaultConfigFlags ==
  /\ flagVersion = S("")
  /\ flagStrategy = S("purego")
  /\ flagBuildMode = S("auto")
  /\ flagTags = S("")
  /\ flagLDFlags = S("")

DefaultOutputFlags ==
  /\ flagCompress = S("")
  /\ flagChecksums = TRUE

HarnessIdle ==
  /\ planTarget = Target(S("linux"), S("amd64"))
  /\ planBase = ZeroConfig
  /\ resolved = <<>>
  /\ named = <<>>

\* runs over every matrix size and worker count, in a project whose
\* .gitignore does not list builds/
Init ==
  /\ flagAll \in BOOLEAN
  /\ flagParallel \in (-1)..MaxParallel
  /\ flagStopOnError = FALSE
  /\ DefaultConfigFlags
  /\ DefaultOutputFlags
  /\ InitWorld
  /\ Exists(PathJoin(S("/proj"), S(".gitignore")))
  /\ InitRun
  /\ HarnessIdle

Next ==
  \/ MainInit
  \/ MainVersion
  \/ MainGitignore
  \/ MainOutput
  \/ MainDispatch
  \/ SenderSend
  \/ SenderClose
  \/ \E w \in Workers : WorkerPull(w)
  \/ \E w \in Workers : WorkerExit(w)
  \/ \E w \in Workers : WorkerResolve(w)
  \/ \E w \in Workers : WorkerInvoke(w)
  \/ \E w \in Workers : WorkerPost(w)
  \/ \E w \in Workers : WorkerEmit(w)
  \/ CloserClose
  \/ MainCollect
  \/ MainCollectEnd
  \/ MainReport
  \/ MainPersist

Spec ==
  Init /\ [][Next]_vars

\* the goroutines of run
MainStep ==
  \/ MainInit
  \/ MainVersion
  \/ MainGitignore
  \/ MainOutput
  \/ MainDispatch
  \/ MainCollect
  \/ MainCollectEnd
  \/ MainReport
  \/ MainPersist

SenderStep ==
  SenderSend \/ SenderClose

WorkerStep(w) ==
  \/ WorkerPull(w)
  \/ WorkerExit(w)
  \/ WorkerResolve(w)
  \/ WorkerInvoke(w)
  \/ WorkerPost(w)
  \/ WorkerEmit(w)

\* the Go scheduler runs every goroutine that is not blocked, and every call
\* of the toolchain and every post-processing step returns
Fairness ==
  /\ WF_vars(MainStep)
  /\ WF_vars(SenderStep)
  /\ WF_vars(CloserClose)
  /\ \A w \in Workers : WF_vars(WorkerStep(w))

\* runs over every matrix size and worker count whose post-processing is the
\* chmod and the size alone (--checksums=false, no --compress)
InitLive ==
  /\ flagAll \in BOOLEAN
  /\ flagParallel \in (-1)..MaxParallel
  /\ flagStopOnError = FALSE
  /\ DefaultConfigFlags
  /\ flagCompress = S("")
  /\ flagChecksums = FALSE
  /\ InitWorld
  /\ Exists(PathJoin(S("/proj"), S(".gitignore")))
  /\ InitRun
  /\ HarnessIdle

SpecLive ==
  InitLive /\ [][Next]_vars /\ Fairness

\* runs over strategy strings, build modes and link flags
ConfigStrategies ==
  {S("purego"), S("PureGo"), S("static"), S("flexible"), S("traditional")}

InitConfig ==
  /\ flagAll \in BOOLEAN
  /\ flagParallel = 1
  /\ flagStopOnError = FALSE
  /\ flagVersion = S("")
  /\ flagStrategy \in ConfigStrategies
  /\ flagBuildMode \in {S("auto"), S("pie"), S("exe")}
  /\ flagTags = S("")
  /\ flagLDFlags \in {S(""), S("-w")}
  /\ DefaultOutputFlags
  /\ InitWorld
  /\ InitRun
  /\ HarnessIdle

SpecConfig ==
  InitConfig /\ [][Next]_vars

\* runs over compression methods and the checksum switch
InitPost ==
  /\ flagAll \in BOOLEAN
  /\ flagParallel = 1
  /\ flagStopOnError = FALSE
  /\ DefaultConfigFlags
  /\ flagCompress \in {S(""), S("gzip"), S("zstd"), S("xz")}
  /\ flagChecksums \in BOOLEAN
  /\ InitWorld
  /\ ~Exists(PathJoin(S("/proj"), S(".gitignore")))
  /\ InitRun
  /\ HarnessIdle

SpecPost ==
  InitPost /\ [][Next]_vars

\* runs with --stop-on-error and one worker
InitStop ==
  /\ flagAll \in BOOLEAN
  /\ flagParallel = 1
  /\ flagStopOnError = TRUE
  /\ DefaultConfigFlags
  /\ DefaultOutputFlags
  /\ InitWorld
  /\ InitRun
  /\ HarnessIdle

SpecStop ==
  InitStop /\ [][Next]_vars

\* runs of one target over the inputs of the version tag
InitVersion ==
  /\ flagAll = FALSE
  /\ flagParallel = 1
  /\ flagStopOnError = FALSE
  /\ flagVersion \in {S(""), S("2.0.0")}
  /\ flagStrategy = S("purego")
  /\ flagBuildMode = S("auto")
  /\ flagTags = S("")
  /\ flagLDFlags = S("")
  /\ DefaultOutputFlags
  /\ environ = <<S("HOME=/root")>>
  /\ goModDirs = {S("/proj")}
  /\ targetDir = S("/proj")
  /\ host = Target(S("linux"), S("amd64"))
  /\ srcVersion \in {S(""), S("3.1.0")}
  /\ headRev \in {S(""), S("abc1234")}
  /\ treeDirty \in BOOLEAN
  /\ prevTags = <<>>
  /\ files = [p \in {} |-> S("")]
  /\ modified = {}
  /\ InitRun
  /\ HarnessIdle

SpecVersion ==
  InitVersion /\ [][Next]_vars

\* consecutive runs of one target in a clean checkout, over what .gitignore
\* holds before the first of them
GitignoreContents ==
  {S("node_modules"),
   S("node_modules") \o <<"\n">>,
   S(""),
   S("builds/") \o <<"\n">>,
   <<" ">> \o S("builds/") \o <<" ", "\r", "\n">> \o S("node_modules"),
   S("builds"),
   S("node_modules") \o <<"\n">> \o S("builds/")}

InitRuns ==
  /\ flagAll = FALSE
  /\ flagParallel = 1
  /\ flagStopOnError = FALSE
  /\ DefaultConfigFlags
  /\ DefaultOutputFlags
  /\ environ = <<S("HOME=/root")>>
  /\ goModDirs = {S("/proj")}
  /\ targetDir = S("/proj")
  /\ host = Target(S("linux"), S("amd64"))
  /\ srcVersion = S("")
  /\ headRev = S("abc1234")
  /\ treeDirty = FALSE
  /\ prevTags = <<>>
  /\ files \in {[p \in {} |-> S("")]}
              \cup {[p \in {PathJoin(S("/proj"), S(".gitignore"))} |-> c] :
                      c \in GitignoreContents}
  /\ modified = {}
  /\ InitRun
  /\ HarnessIdle

NextRuns ==
  \/ MainInit
  \/ MainVersion
  \/ MainGitignore
  \/ MainOutput
  \/ MainDispatch
  \/ SenderSend
  \/ SenderClose
  \/ \E w \in Workers : WorkerPull(w)
  \/ \E w \in Workers : WorkerExit(w)
  \/ \E w \in Workers : WorkerResolve(w)
  \/ \E w \in Workers : WorkerInvoke(w)
  \/ \E w \in Workers : WorkerPost(w)
  \/ \E w \in Workers : WorkerEmit(w)
  \/ CloserClose
  \/ MainCollect
  \/ MainCollectEnd
  \/ MainReport
  \/ MainPersist
  \/ MainRestart

SpecRuns ==
  InitRuns /\ [][NextRuns]_vars

\* the resolver harness alone
InitPlan ==
  /\ flagAll = FALSE
  /\ flagParallel = 1
  /\ flagStopOnError = FALSE
  /\ DefaultConfigFlags
  /\ DefaultOutputFlags
  /\ environ \in Environs
  /\ goModDirs = {S("/proj")}
  /\ targetDir = S("/proj")
  /\ host = Target(S("linux"), S("amd64"))
  /\ srcVersion = S("")
  /\ headRev = S("abc1234")
  /\ treeDirty = FALSE
  /\ prevTags = <<>>
  /\ files = [p \in {} |-> S("")]
  /\ modified = {}
  /\ InitRun
  /\ planTarget \in PlanTargets
  /\ planBase \in PlanBases
  /\ resolved = <<>>
  /\ named = <<>>

NextPlan ==
  \E s \in StrategyStrings, dir \in WorkDirs : Resolve(s, dir)

SpecPlan ==
  InitPlan /\ [][NextPlan]_vars

\* the naming harness alone
InitNames ==
  /\ flagAll = TRUE
  /\ flagParallel = 1
  /\ flagStopOnError = FALSE
  /\ DefaultConfigFlags
  /\ DefaultOutputFlags
  /\ environ = <<S("HOME=/root")>>
  /\ goModDirs = {S("/proj")}
  /\ targetDir = S("/proj")
  /\ host = Target(S("linux"), S("amd64"))
  /\ srcVersion = S("")
  /\ headRev = S("abc1234")
  /\ treeDirty = FALSE
  /\ prevTags = <<>>
  /\ files = [p \in {} |-> S("")]
  /\ modified = {}
  /\ InitRun
  /\ HarnessIdle

NextNames ==
  \E project \in ProjectNames, i \in 1..Len(Default) :
    NameTarget(project, Default[i])

SpecNames ==
  InitNames /\ [][NextNames]_vars

(***************************************************************************)
(* Termination of run                                                      *)
(***************************************************************************)
\* no goroutine of run is blocked for good: the sender finds room in
\* targetChan, a worker finds room in resultChan, and as long as run has
\* not returned some goroutine can take a step
NothingBlocksForGood ==
  /\ (senderpc = "send" /\ sent < Len(matrix)) => Len(targetChan) < Len(matrix)
  /\ \A w \in Workers : wpc[w] = "emit" => Len(resultChan) < Len(matrix)
  /\ \A w \in Workers :
       (wpc[w] = "pull" /\ targetClosed /\ targetChan = <<>>) => ENABLED WorkerExit(w)
  /\ mainpc # "Done" => ENABLED Next
  /\ (mainpc = "Done" /\ result = "nil") =>
       /\ AllWorkersDone
       /\ senderpc = "done"
       /\ closerpc = "done"
       /\ targetChan = <<>>
       /\ resultChan = <<>>

\* C24: under fair scheduling no goroutine ever blocks for good, and a run
\* that has passed setup reaches Done with the result nil, whatever the
\* number of targets and workers.
C24_RunReachesDone ==
  /\ []NothingBlocksForGood
  /\ (mainpc = "Dispatch") ~> (mainpc = "Done" /\ result = "nil")

\* a finished run with more workers than targets
C24_Witness ==
  /\ mainpc = "Done"
  /\ result = "nil"
  /\ Len(matrix) = 1
  /\ numWorkers = MaxParallel
  /\ \A w \in Workers : wpc[w] = "exit"

====
